---- MODULE Spec2Model ----
(***************************************************************************)
(* A model of kube-netflow's main.go: the construction of the chord        *)
(* diagram from the Elasticsearch aggregation buckets (main) and the       *)
(* rendering of the diagram on a canvas (ChordDiagram.Plot, drawChord).    *)
(*                                                                         *)
(* Flow values, chord widths and the angles that decide the label flip are *)
(* float64 values, computed in IEEE-754 binary64 as the Go code computes   *)
(* them, on multi-limb integers.  The positions on the circle are kept as  *)
(* exact fractions of a turn.                                              *)
(***************************************************************************)
EXTENDS Integers, Sequences, FiniteSets, TLC

(***************************************************************************)
(* Bounds of the model.                                                    *)
(***************************************************************************)
MaxN == 3          \* node count of a directly constructed diagram
MaxEdges == 2      \* non-zero entries of a directly constructed flow matrix
FlowUnit == 50     \* the unit the flow values are multiples of
MaxIPs == 2        \* distinct IP addresses in a search response
MaxBuckets == 2    \* source buckets in a search response
MaxRecords == 2    \* destination buckets in a search response, in total
MaxRotN == 100     \* node count of the label-rotation specification
MaxColorN == 129   \* node count of the colour specification

(***************************************************************************)
(* Non-negative integers of any size: little-endian sequences of limbs.    *)
(***************************************************************************)
LimbBase == 2^15

Limb(a, k) == IF k <= Len(a) THEN a[k] ELSE 0

RECURSIVE BMulCarry(_, _, _, _)
BMulCarry(a, k, pos, carry) ==
    IF pos > Len(a)
    THEN IF carry = 0 THEN <<>> ELSE <<carry>>
    ELSE LET v == a[pos] * k + carry
         IN  <<v % LimbBase>> \o BMulCarry(a, k, pos + 1, v \div LimbBase)

\* a * k for 0 <= k < LimbBase
BMulSmall(a, k) == BMulCarry(a, k, 1, 0)

RECURSIVE BDivFrom(_, _, _, _)
BDivFrom(a, k, pos, rem) ==
    IF pos = 0
    THEN [q |-> <<>>, r |-> rem]
    ELSE LET v == rem * LimbBase + a[pos]
             rest == BDivFrom(a, k, pos - 1, v % k)
         IN  [q |-> rest.q \o <<v \div k>>, r |-> rest.r]

\* quotient and remainder of a by k, 0 < k < LimbBase
BDivSmall(a, k) == BDivFrom(a, k, Len(a), 0)

RECURSIVE BAddCarry(_, _, _)
BAddCarry(a, pos, carry) ==
    IF carry = 0 THEN SubSeq(a, pos, Len(a))
    ELSE IF pos > Len(a) THEN <<carry>>
    ELSE LET v == a[pos] + carry
         IN  <<v % LimbBase>> \o BAddCarry(a, pos + 1, v \div LimbBase)

BInc(a) == BAddCarry(a, 1, 1)

RECURSIVE TopLimb(_, _)
TopLimb(a, pos) ==
    IF pos = 0 THEN 0
    ELSE IF a[pos] # 0 THEN pos ELSE TopLimb(a, pos - 1)

RECURSIVE IntBits(_)
IntBits(v) == IF v = 0 THEN 0 ELSE 1 + IntBits(v \div 2)

BitLen(a) ==
    LET t == TopLimb(a, Len(a))
    IN  IF t = 0 THEN 0 ELSE 15 * (t - 1) + IntBits(a[t])

BIsOdd(a) == Limb(a, 1) % 2 = 1

RECURSIVE BLessFrom(_, _, _)
BLessFrom(a, b, pos) ==
    IF pos = 0 THEN FALSE
    ELSE IF Limb(a, pos) # Limb(b, pos) THEN Limb(a, pos) < Limb(b, pos)
    ELSE BLessFrom(a, b, pos - 1)

BLess(a, b) == BLessFrom(a, b, IF Len(a) > Len(b) THEN Len(a) ELSE Len(b))

BEq(a, b) == ~BLess(a, b) /\ ~BLess(b, a)

\* a without its leading zero limbs
Trim(a) == SubSeq(a, 1, TopLimb(a, Len(a)))

\* a * 2^s
BShiftLeft(a, s) == [k \in 1..(s \div 15) |-> 0] \o BMulSmall(a, 2^(s % 15))

\* quotient and remainder of a by 2^s
BDivPow2(a, s) ==
    LET whole == IF s \div 15 < Len(a) THEN s \div 15 ELSE Len(a)
        d == BDivSmall(SubSeq(a, whole + 1, Len(a)), 2^(s % 15))
    IN  IF s \div 15 >= Len(a) THEN [q |-> <<>>, r |-> a]
        ELSE [q |-> d.q, r |-> SubSeq(a, 1, whole) \o <<d.r>>]

RECURSIVE BAddFrom(_, _, _, _)
BAddFrom(a, b, pos, carry) ==
    IF pos > Len(a) /\ pos > Len(b)
    THEN IF carry = 0 THEN <<>> ELSE <<carry>>
    ELSE LET v == Limb(a, pos) + Limb(b, pos) + carry
         IN  <<v % LimbBase>> \o BAddFrom(a, b, pos + 1, v \div LimbBase)

BAdd(a, b) == BAddFrom(a, b, 1, 0)

RECURSIVE BSubFrom(_, _, _, _)
BSubFrom(a, b, pos, borrow) ==
    IF pos > Len(a) THEN <<>>
    ELSE LET v == a[pos] - Limb(b, pos) - borrow
         IN  <<(v + LimbBase) % LimbBase>>
               \o BSubFrom(a, b, pos + 1, IF v < 0 THEN 1 ELSE 0)

\* a - b for a >= b
BSub(a, b) == BSubFrom(a, b, 1, 0)

RECURSIVE QuotDigit(_, _, _)
\* the largest digit q <= qhat with q * b <= rem
QuotDigit(rem, b, qhat) ==
    IF BLess(rem, BMulSmall(b, qhat)) THEN QuotDigit(rem, b, qhat - 1) ELSE qhat

RECURSIVE BDivDigits(_, _, _, _)
\* long division of rem by b, whose top limb bt >= LimbBase / 2 is limb t:
\* the quotient's limbs j, j-1, ..., 0 and the remainder
BDivDigits(rem, b, t, j) ==
    IF j < 0 THEN [q |-> <<>>, r |-> rem]
    ELSE LET bj == [k \in 1..j |-> 0] \o b
             top == Limb(rem, t + j + 1) * LimbBase + Limb(rem, t + j)
             est == top \div b[t]
             qhat == IF est >= LimbBase THEN LimbBase - 1 ELSE est
             digit == QuotDigit(rem, bj, qhat)
             rest == BDivDigits(BSub(rem, BMulSmall(bj, digit)), b, t, j - 1)
         IN  [q |-> rest.q \o <<digit>>, r |-> rest.r]

\* quotient q and remainder r of a by b > 0, both scaled by the power of two
\* that makes the divisor d = b * 2^s have a full top limb: a * 2^s = q * d + r
BDiv(a, b) ==
    LET b0 == Trim(b)
        s == 15 - IntBits(b0[Len(b0)])
        d == Trim(BShiftLeft(b0, s))
        n == Trim(BShiftLeft(a, s))
        res == BDivDigits(n, d, Len(d), IF Len(n) < Len(d) THEN -1 ELSE Len(n) - Len(d))
    IN  [q |-> Trim(res.q), r |-> Trim(res.r), d |-> d]

(***************************************************************************)
(* float64: a non-negative binary64 value is m * 2^e with m <= 2^53.       *)
(* Every operation rounds to nearest, ties to even, as the hardware does.  *)
(***************************************************************************)
MantBits == 53

\* the 53-bit significand of float64(math.Pi), 0x1921FB54442D18
PiMant == <<11544, 10376, 2029, 201>>
\* float64(2 * math.Pi), float64(math.Pi / 2): exact scalings of float64(Pi)
TwoPi == [m |-> PiMant, e |-> -50]
HalfPi == [m |-> PiMant, e |-> -52]
\* float64(3 * math.Pi / 2): the constant expression rounded once,
\* significand 0x12D97C7F3321D2
ThreeHalfPi == [m |-> <<8658, 32358, 26097, 150>>, e |-> -50]

\* whether the quotient q of a division, with remainder r and divisor d, is
\* rounded up: r > d/2, or r = d/2 and q is odd
RoundsUp(q, r, d) ==
    LET r2 == BMulSmall(r, 2)
    IN  BLess(d, r2) \/ (BEq(d, r2) /\ BIsOdd(q))

\* m * 2^e rounded to MantBits bits
RoundMant(m, e) ==
    LET len == BitLen(m)
    IN  IF len <= MantBits THEN [m |-> Trim(m), e |-> e]
        ELSE LET s == len - MantBits
                 d == BDivPow2(m, s)
             IN  [m |-> IF RoundsUp(d.q, d.r, BShiftLeft(<<1>>, s))
                        THEN BInc(d.q) ELSE d.q,
                  e |-> e + s]

FZero == [m |-> <<>>, e |-> 0]

FIsZero(x) == TopLimb(x.m, Len(x.m)) = 0

\* float64(v) for an integer 0 <= v < 2^31
FromInt(v) == [m |-> Trim(<<v % LimbBase, (v \div LimbBase) % LimbBase,
                            v \div (LimbBase * LimbBase)>>),
               e |-> 0]

\* float64 product of a small integer and x
FMulInt(i, x) == RoundMant(BMulSmall(x.m, i), x.e)

\* x < y
FLess(x, y) ==
    LET e == IF x.e < y.e THEN x.e ELSE y.e
    IN  IF FIsZero(y) THEN FALSE
        ELSE IF FIsZero(x) THEN TRUE
        ELSE BLess(BShiftLeft(x.m, x.e - e), BShiftLeft(y.m, y.e - e))

FEq(x, y) == ~FLess(x, y) /\ ~FLess(y, x)

\* x + y
FAdd(x, y) ==
    LET e == IF x.e < y.e THEN x.e ELSE y.e
    IN  IF FIsZero(x) THEN y
        ELSE IF FIsZero(y) THEN x
        ELSE RoundMant(BAdd(BShiftLeft(x.m, x.e - e), BShiftLeft(y.m, y.e - e)), e)

\* x / y for y > 0: the quotient of the significands to 53 or 54 bits, then
\* rounded to 53
FDiv(x, y) ==
    LET k == MantBits + BitLen(y.m) - BitLen(x.m)
        d == BDiv(BShiftLeft(x.m, k), y.m)
        h == BDivSmall(d.q, 2)
    IN  IF FIsZero(x) THEN FZero
        ELSE IF BitLen(d.q) <= MantBits
        THEN [m |-> IF RoundsUp(d.q, d.r, d.d) THEN BInc(d.q) ELSE d.q,
              e |-> x.e - y.e - k]
        ELSE [m |-> IF h.r = 1 /\ (BitLen(d.r) > 0 \/ BIsOdd(h.q))
                    THEN BInc(h.q) ELSE h.q,
              e |-> x.e - y.e - k + 1]

\* math.Nextafter(x, +Inf) for x > 0: the next float64 above x
NextUp(x) ==
    LET s == MantBits - BitLen(x.m)
    IN  [m |-> BInc(BShiftLeft(Trim(x.m), s)), e |-> x.e - s]

(***************************************************************************)
(* Layout: angleStep and the centre angle of node i (lines 55, 74).        *)
(***************************************************************************)
PosInf == [inf |-> TRUE]

\* line 55: angleStep := 2 * math.Pi / float64(n)
AngleStep(len) == IF len = 0 THEN PosInf ELSE FDiv(TwoPi, FromInt(len))

\* a fraction of a full turn: the angle num/den * 2 * Pi
Turn(num, den) == [num |-> num, den |-> den]

(***************************************************************************)
(* Canvas geometry (pointOnCircle, lines 145-150).  A point is kept as its *)
(* polar form about the origin: radius in percent of the circle's radius   *)
(* and angle.                                                              *)
(***************************************************************************)
pointOnCircle(radiusPct, angle) == [r |-> radiusPct, a |-> angle]

Gray == [R |-> 100, G |-> 100, B |-> 100, A |-> 255]
Black == [R |-> 0, G |-> 0, B |-> 0, A |-> 255]
Backplate == [R |-> 255, G |-> 255, B |-> 255, A |-> 220]

\* the zero value of a draw.TextStyle's fields the code later sets
TextStyle0 ==
    [Color |-> Black, Rotation |-> [node |-> Turn(0, 1), quarter |-> FALSE, flip |-> FALSE],
     XAlign |-> "XLeft", YAlign |-> "YBottom"]

Stroke(width, color, path) ==
    [op |-> "Stroke", width |-> width, color |-> color, path |-> path]

FillText(style, at, text) ==
    [op |-> "FillText", style |-> style, at |-> at, text |-> text]

\* lines 74-83: the arc of node i
ArcStroke(i, n) ==
    LET startAngle == Turn(3 * i - 1, 3 * n)
        sweep == Turn(2, 3 * n)
    IN  Stroke(FromInt(2), Gray,
               << [seg |-> "Move", to |-> pointOnCircle(100, startAngle)],
                  [seg |-> "Arc", radius |-> 100, start |-> startAngle,
                   sweep |-> sweep] >>)

\* line 74: angle := float64(i) * angleStep, with the exact fraction of a
\* turn it stands for
NodeAngle(node, len, step) == [turn |-> Turn(node, len), f64 |-> FMulInt(node, step)]

\* lines 90 and 104: angle > math.Pi/2 && angle < 3*math.Pi/2
ShouldFlip(angle) ==
    FLess(HalfPi, angle.f64) /\ FLess(angle.f64, ThreeHalfPi)

\* lines 89-92: baseRotation is baseAngle, plus Pi when flipped
BaseRotation(angle) ==
    [node |-> angle.turn, quarter |-> FALSE, flip |-> ShouldFlip(angle)]

\* lines 103-106: labelRotation is labelAngle + Pi/2, plus Pi when flipped
LabelRotation(angle) ==
    [node |-> angle.turn, quarter |-> TRUE, flip |-> ShouldFlip(angle)]

FillTextsFgFirst(style, at, text) ==
    << FillText(style, at, text),
       FillText([style EXCEPT !.Color = Backplate], at, text) >>

\* lines 97-100 and 119-122: the backplate fill, then the foreground fill
FillTexts(style, at, text) ==
    << FillText([style EXCEPT !.Color = Backplate], at, text),
       FillText(style, at, text) >>

(***************************************************************************)
(* The aggregate-volume label (lines 108-112).                             *)
(***************************************************************************)
RECURSIVE SumTo(_, _)
SumTo(row, k) == IF k = 0 THEN FZero ELSE FAdd(SumTo(row, k - 1), row[k])

\* lines 108-111: totalBytes, the entries of row i added in the order j < n
RowTotal(Flow, i, n) == SumTo(Flow[i + 1], n)

\* x / 2^k, which is exact: only the exponent changes
FScale(x, k) == [m |-> x.m, e |-> x.e - k]

\* line 112, fmt.Sprintf("%.1f MB", totalBytes/1024/1024): the tenths of a
\* megabyte nearest to the float64 quotient, ties to even
FormatMB(totalBytes) ==
    LET mb == FScale(FScale(totalBytes, 10), 10)
        m10 == BMulSmall(mb.m, 10)
        d == BDivPow2(m10, -mb.e)
        tenths == IF mb.e >= 0 THEN BShiftLeft(m10, mb.e)
                  ELSE IF RoundsUp(d.q, d.r, BShiftLeft(<<1>>, -mb.e))
                  THEN BInc(d.q) ELSE d.q
    IN  [tenths |-> Trim(tenths), unit |-> " MB"]

CenterStyle(style, rotation) ==
    [style EXCEPT !.Rotation = rotation, !.XAlign = "XCenter", !.YAlign = "YCenter"]

\* lines 99 and 110: whether c.Labels[i] or c.Flow[i][j], j < n, is an index
\* out of range
IndexOutOfRange(d, node, len) ==
    /\ ~d.Labels.nil
    /\ node >= Len(d.Labels.s) \/ len > Len(d.Flow[node + 1])

\* lines 74-123: what one iteration of the node loop draws, the styles it
\* leaves, and whether an index out of range ends it
NodeIteration(d, node, len, angle, baseStyle, outerStyle) ==
    LET arc == <<ArcStroke(node, len)>>
        base == CenterStyle(baseStyle, BaseRotation(angle))
        outer == CenterStyle(outerStyle, LabelRotation(angle))
        basePos == pointOnCircle(107, angle.turn)
        labelPos == pointOnCircle(115, angle.turn)
    IN  IF d.Labels.nil
        THEN [ops |-> arc, panic |-> FALSE, base |-> baseStyle, outer |-> outerStyle]
        ELSE IF node >= Len(d.Labels.s)
        THEN [ops |-> arc, panic |-> TRUE, base |-> base, outer |-> outerStyle]
        ELSE IF len > Len(d.Flow[node + 1])
        THEN [ops |-> arc \o FillTexts(base, basePos, [label |-> d.Labels.s[node + 1]]),
              panic |-> TRUE, base |-> base, outer |-> outerStyle]
        ELSE [ops |-> arc \o FillTexts(base, basePos, [label |-> d.Labels.s[node + 1]])
                          \o FillTexts(outer, labelPos,
                                       FormatMB(RowTotal(d.Flow, node, len))),
              panic |-> FALSE, base |-> base, outer |-> outer]

(***************************************************************************)
(* Chords (lines 126-142, drawChord lines 152-179).                        *)
(***************************************************************************)
RECURSIVE MaxFlowFrom(_, _, _, _)
MaxFlowFrom(Flow, r, k, m) ==
    IF r > Len(Flow) THEN m
    ELSE IF k > Len(Flow[r]) THEN MaxFlowFrom(Flow, r + 1, 1, m)
    ELSE MaxFlowFrom(Flow, r, k + 1, IF FLess(m, Flow[r][k]) THEN Flow[r][k] ELSE m)

\* lines 126-133: maxFlow
MaxFlowOf(Flow) == MaxFlowFrom(Flow, 1, 1, FZero)

QualifiesGE(f) == ~FLess(f, FZero)

\* line 137: c.Flow[i][j] > 0
Qualifies(f) == FLess(FZero, f)

\* line 362: the factor of the colour channels, and the size of a uint8
ColorStep == 30
ChannelSize == 256

ColorOfStep32(i, j) ==
    [R |-> (32 * i) % ChannelSize, G |-> (32 * j) % ChannelSize, B |-> 255, A |-> 200]

\* line 362: the Color closure main installs
ColorOf(i, j) ==
    [R |-> (ColorStep * i) % ChannelSize, G |-> (ColorStep * j) % ChannelSize,
     B |-> 255, A |-> 200]

Min(a, b) == IF a < b THEN a ELSE b

\* lines 175-176: RGBAModel.Convert, then the alpha boost
ChordColor(clr) == [clr EXCEPT !.A = Min(255, clr.A + 100)]

drawChordWidth2(i, j, n, weight, clr) ==
    Stroke(FMulInt(2, weight), ChordColor(clr),
           << [seg |-> "Move", to |-> pointOnCircle(100, Turn(i, n))],
              [seg |-> "CubeTo",
               c1 |-> pointOnCircle(50, Turn(i, n)),
               c2 |-> pointOnCircle(50, Turn(j, n)),
               to |-> pointOnCircle(100, Turn(j, n))] >>)

\* lines 152-178
drawChord(i, j, n, weight, clr) ==
    Stroke(FMulInt(3, weight), ChordColor(clr),
           << [seg |-> "Move", to |-> pointOnCircle(100, Turn(i, n))],
              [seg |-> "CubeTo",
               c1 |-> pointOnCircle(50, Turn(i, n)),
               c2 |-> pointOnCircle(50, Turn(j, n)),
               to |-> pointOnCircle(100, Turn(j, n))] >>)

NoCell == <<-1, -1>>

\* lines 135-137: the first cell at or after (i, j), in the order of the
\* loops over the rows and over each row's entries, that a chord is drawn
\* for; NoCell when the loops end first
RECURSIVE ToDraw(_, _, _)
ToDraw(Flow, i, j) ==
    IF i >= Len(Flow) THEN NoCell
    ELSE IF j >= Len(Flow[i + 1]) THEN ToDraw(Flow, i + 1, 0)
    ELSE IF Qualifies(Flow[i + 1][j + 1]) THEN <<i, j>>
    ELSE ToDraw(Flow, i, j + 1)

(***************************************************************************)
(* The order of Plot's blocks (lines 73-142).                              *)
(***************************************************************************)
NextBlockChordsFirst(b) ==
    CASE b = "entry" -> "maxflow"
      [] b = "maxflow" -> "chords"
      [] b = "chords" -> "nodes"
      [] OTHER -> "return"

NextBlock(b) ==
    CASE b = "entry" -> "nodes"
      [] b = "nodes" -> "maxflow"
      [] b = "maxflow" -> "chords"
      [] OTHER -> "return"

RECURSIVE Enter(_, _)
Enter(b, len) ==
    CASE b = "nodes" ->
            IF len > 0 THEN [pc |-> "arc"] ELSE Enter(NextBlock("nodes"), len)
      [] b = "maxflow" -> [pc |-> "maxflow"]
      [] b = "chords" -> [pc |-> "chord"]
      [] OTHER -> [pc |-> "returned"]


(***************************************************************************)
(* main: node indices and the flow matrix (lines 298-338).                 *)
(***************************************************************************)
\* lines 303-306 and 311-314: give ip the next index unless it has one
IndexIP(st, ip) ==
    IF ip \in DOMAIN st.nodes THEN st
    ELSE [nodes |-> [x \in DOMAIN st.nodes \cup {ip} |->
                        IF x = ip THEN Cardinality(DOMAIN st.nodes) ELSE st.nodes[x]],
          names |-> Append(st.names, ip)]

RECURSIVE IndexDests(_, _, _)
IndexDests(st, dests, k) ==
    IF k > Len(dests) THEN st
    ELSE IndexDests(IndexIP(st, dests[k].key), dests, k + 1)

\* lines 301-316, one source bucket
IndexOneBucket(st, bucket) ==
    IndexDests(IndexIP(st, bucket.key), bucket.dests, 1)

RECURSIVE IndexFrom(_, _, _)
\* lines 301-316, the buckets from the b-th on
IndexFrom(st, bs, b) ==
    IF b > Len(bs) THEN st
    ELSE IndexFrom(IndexOneBucket(st, bs[b]), bs, b + 1)

\* lines 318-322
ZeroMatrix(size) == [r \in 1..size |-> [k \in 1..size |-> FZero]]

\* line 336
SetFlow(fl, s, d, bytes) ==
    [fl EXCEPT ![s + 1][d + 1] = bytes]

RECURSIVE FillDests(_, _, _, _, _)
FillDests(fl, nd, sourceIdx, dests, k) ==
    IF k > Len(dests) THEN fl
    ELSE FillDests(SetFlow(fl, sourceIdx, nd[dests[k].key], dests[k].bytes),
                   nd, sourceIdx, dests, k + 1)

\* lines 324-338, one source bucket
FillOneBucket(fl, nd, bucket) ==
    FillDests(fl, nd, nd[bucket.key], bucket.dests, 1)

RECURSIVE FillFrom(_, _, _, _)
\* lines 324-338, the buckets from the b-th on
FillFrom(fl, nd, bs, b) ==
    IF b > Len(bs) THEN fl
    ELSE FillFrom(FillOneBucket(fl, nd, bs[b]), nd, bs, b + 1)

(***************************************************************************)
(* Inputs.                                                                 *)
(***************************************************************************)
IPs == 1..MaxIPs

RECURSIVE SumTo1(_, _)
SumTo1(f, k) == IF k = 0 THEN 0 ELSE f[k] + SumTo1(f, k - 1)

\* a search response: bucket b has source keys[b] and cnt[b] destination
\* buckets, whose keys are taken from dk in order; every destination bucket
\* carries its own bytes value
Response(cnt, keys, dk) ==
    [b \in 1..Len(keys) |->
        [key |-> keys[b],
         dests |-> [d \in 1..cnt[b] |->
                      [key |-> dk[SumTo1(cnt, b - 1) + d],
                       bytes |-> FromInt(FlowUnit * (SumTo1(cnt, b - 1) + d))]]]]

\* the entries of the matrices: a value and its double
FlowVals == {FromInt(FlowUnit), FromInt(2 * FlowUnit)}

\* a value below the unit, to go with the next float64 above it
LowVal == FromInt(FlowUnit \div 5)

Names(len) == [k \in 1..len |-> k]

NilLabels == [nil |-> TRUE, s |-> <<>>]

LabelsOf(s) == [nil |-> FALSE, s |-> s]

MatrixOf(size, vals) ==
    [r \in 1..size |-> [k \in 1..size |->
        IF <<r - 1, k - 1>> \in DOMAIN vals THEN vals[<<r - 1, k - 1>>] ELSE FZero]]

SquareCells(size) == (0..(size - 1)) \X (0..(size - 1))

\* the cell p comes before q in the order of the loops
Before(p, q) == p[1] < q[1] \/ (p[1] = q[1] /\ p[2] < q[2])

Resize(row, len) == [k \in 1..len |-> IF k <= Len(row) THEN row[k] ELSE FZero]

\* the matrix m with row alt[1] (if there is one) cut or padded to length alt[2]
Ragged(m, alt) ==
    [r \in 1..Len(m) |-> IF r = alt[1] THEN Resize(m[r], alt[2]) ELSE m[r]]

(***************************************************************************)
(* State.                                                                  *)
(***************************************************************************)
VARIABLES
    pc,               \* where the program is
    buckets,          \* main: the source buckets of the search response
    added,            \* main: the diagram has been added to the plot (line 358)
    nodes,            \* main: IP -> index
    names,            \* main: index -> IP
    flow,             \* main: the flow matrix
    c,                \* the ChordDiagram being plotted: Flow and Labels
    n,                \* Plot: len(c.Flow)
    angleStep,        \* Plot: 2 * Pi / n, a float64
    i,                \* Plot: the row the current loop is at (from 0)
    j,                \* Plot: the column the chord loop is at (from 0)
    baseLabelStyle,   \* Plot: the identity labels' text style
    outerLabelStyle,  \* Plot: the aggregate-volume labels' text style
    maxFlow,          \* Plot: the largest entry
    ops,              \* the canvas: the draw calls applied to it, in order
    divisors,         \* the values of maxFlow that flow/maxFlow was evaluated with
    palette           \* the colour set for each index pair

vars == <<pc, buckets, added, nodes, names, flow, c, n, angleStep, i, j, baseLabelStyle,
          outerLabelStyle, maxFlow, ops, divisors, palette>>

mainVars == <<buckets, added, nodes, names, flow>>

plotVars == <<n, angleStep, i, j, baseLabelStyle, outerLabelStyle, maxFlow, ops, divisors, palette>>

NoDiagram == [Flow |-> <<>>, Labels |-> NilLabels]

Start(at) ==
    /\ pc = at
    /\ buckets = <<>>
    /\ added = FALSE
    /\ nodes = <<>>
    /\ names = <<>>
    /\ flow = <<>>
    /\ c = NoDiagram
    /\ angleStep = PosInf
    /\ j = 0
    /\ baseLabelStyle = TextStyle0
    /\ outerLabelStyle = TextStyle0
    /\ maxFlow = FZero
    /\ ops = <<>>
    /\ divisors = {}
    /\ palette = {}

Init == Start("idle") /\ n = 0 /\ i = 0

(***************************************************************************)
(* main, lines 296-364.                                                    *)
(***************************************************************************)
\* line 296: the buckets of the search response
Search ==
    /\ pc = "idle"
    /\ \E nb \in 0..MaxBuckets :
         \E cnt \in [1..nb -> 0..MaxRecords] :
           /\ SumTo1(cnt, nb) <= MaxRecords
           /\ \E keys \in [1..nb -> IPs] :
                \E dk \in [1..SumTo1(cnt, nb) -> IPs] :
                  buckets' = Response(cnt, keys, dk)
    /\ pc' = "index"
    /\ UNCHANGED <<nodes, names, flow, c, added>>
    /\ UNCHANGED plotVars

\* lines 298-316: the loop that gives every IP its index
IndexBuckets ==
    /\ pc = "index"
    /\ \E st \in {IndexFrom([nodes |-> nodes, names |-> names], buckets, 1)} :
         nodes' = st.nodes /\ names' = st.names
    /\ pc' = "alloc"
    /\ UNCHANGED <<buckets, flow, c, added>>
    /\ UNCHANGED plotVars

\* lines 318-322
AllocFlow ==
    /\ pc = "alloc"
    /\ flow' = ZeroMatrix(Cardinality(DOMAIN nodes))
    /\ pc' = "fill"
    /\ UNCHANGED <<buckets, nodes, names, c, added>>
    /\ UNCHANGED plotVars

\* lines 324-338: the loop that fills the matrix
FillBuckets ==
    /\ pc = "fill"
    /\ flow' = FillFrom(flow, nodes, buckets, 1)
    /\ pc' = "add"
    /\ UNCHANGED <<buckets, nodes, names, c, added>>
    /\ UNCHANGED plotVars

\* lines 358-366: the diagram is added to the plot, which Save draws.
\* names is a nil slice when nothing was appended to it.
AddDiagram ==
    /\ pc = "add"
    /\ c' = [Flow |-> flow,
             Labels |-> IF names = <<>> THEN NilLabels ELSE LabelsOf(names)]
    /\ added' = TRUE
    /\ pc' = "entry"
    /\ UNCHANGED <<buckets, nodes, names, flow>>
    /\ UNCHANGED plotVars

\* any other caller's ChordDiagram{Flow: ..., Labels: ..., Color: ...}:
\* a labelled square matrix with at most MaxEdges positive entries; or a
\* matrix with at most one positive entry, one row of which may have any
\* length, with no labels or any number of them; or a labelled square matrix
\* with three positive entries, two of them float64 neighbours
NewDiagram ==
    /\ pc = "idle"
    /\ \E size \in 0..MaxN :
         \/ \E E \in SUBSET SquareCells(size) :
              /\ Cardinality(E) <= MaxEdges
              /\ \E vals \in [E -> FlowVals] :
                   c' = [Flow |-> MatrixOf(size, vals), Labels |-> LabelsOf(Names(size))]
         \/ \E E \in {{}} \cup {{p} : p \in SquareCells(size)} :
              \E vals \in [E -> {FromInt(FlowUnit)}] :
                \E alt \in (0..size) \X (0..(size + 1)) :
                  \E l \in {NilLabels} \cup {LabelsOf(Names(k)) : k \in 0..(MaxN + 1)} :
                    c' = [Flow |-> Ragged(MatrixOf(size, vals), alt), Labels |-> l]
         \/ \E p1, p2, p3 \in SquareCells(size) :
              /\ Before(p1, p2) /\ Before(p2, p3)
              /\ c' = [Flow |-> MatrixOf(size, (p1 :> LowVal) @@ (p2 :> NextUp(LowVal))
                                                 @@ (p3 :> FromInt(FlowUnit))),
                       Labels |-> LabelsOf(Names(size))]
    /\ pc' = "entry"
    /\ UNCHANGED mainVars
    /\ UNCHANGED plotVars

(***************************************************************************)
(* ChordDiagram.Plot, lines 50-143.                                        *)
(***************************************************************************)
\* lines 50-71
PlotBegin ==
    /\ pc = "entry"
    /\ n' = Len(c.Flow)
    /\ angleStep' = AngleStep(Len(c.Flow))
    /\ pc' = Enter(NextBlock("entry"), Len(c.Flow)).pc
    /\ i' = 0
    /\ j' = 0
    /\ UNCHANGED <<c, baseLabelStyle, outerLabelStyle, maxFlow, ops, divisors, palette>>
    /\ UNCHANGED mainVars

\* lines 73-124, one iteration of the node loop
PlotNode ==
    /\ pc = "arc"
    /\ ~IndexOutOfRange(c, i, n)
    /\ \E angle \in {NodeAngle(i, n, angleStep)} :
         \E res \in {NodeIteration(c, i, n, angle, baseLabelStyle, outerLabelStyle)} :
           /\ ~res.panic
           /\ ops' = ops \o res.ops
           /\ baseLabelStyle' = res.base
           /\ outerLabelStyle' = res.outer
    /\ IF i + 1 < n
       THEN pc' = "arc" /\ i' = i + 1
       ELSE pc' = Enter(NextBlock("nodes"), n).pc /\ i' = 0
    /\ UNCHANGED <<c, n, angleStep, j, maxFlow, divisors, palette>>
    /\ UNCHANGED mainVars

\* lines 73-124, an iteration that an index out of range ends: c.Labels[i]
\* at line 99 or c.Flow[i][j] at line 110
PlotNodePanic ==
    /\ pc = "arc"
    /\ IndexOutOfRange(c, i, n)
    /\ \E angle \in {NodeAngle(i, n, angleStep)} :
         \E res \in {NodeIteration(c, i, n, angle, baseLabelStyle, outerLabelStyle)} :
           /\ res.panic
           /\ ops' = ops \o res.ops
           /\ baseLabelStyle' = res.base
           /\ outerLabelStyle' = res.outer
    /\ pc' = "panicked"
    /\ UNCHANGED <<c, n, angleStep, i, j, maxFlow, divisors, palette>>
    /\ UNCHANGED mainVars

\* lines 126-133
MaxFlow ==
    /\ pc = "maxflow"
    /\ maxFlow' = MaxFlowOf(c.Flow)
    /\ pc' = Enter(NextBlock("maxflow"), n).pc
    /\ i' = 0
    /\ j' = 0
    /\ UNCHANGED <<c, n, angleStep, baseLabelStyle, outerLabelStyle, ops, divisors, palette>>
    /\ UNCHANGED mainVars

\* lines 135-142: the iterations up to and including the next one that draws
PlotChord ==
    /\ pc = "chord"
    /\ \E p \in {ToDraw(c.Flow, i, j)} \ {NoCell} :
         LET weight == FDiv(c.Flow[p[1] + 1][p[2] + 1], maxFlow)
             clr == ColorOf(p[1], p[2])
             chord == drawChord(p[1], p[2], n, weight, clr)
         IN  /\ divisors' = divisors \cup {maxFlow}
             /\ ops' = Append(ops, chord)
             /\ palette' = palette \cup {[pair |-> p, color |-> chord.color]}
             /\ i' = p[1]
             /\ j' = p[2] + 1
    /\ UNCHANGED <<pc, c, n, angleStep, baseLabelStyle, outerLabelStyle, maxFlow>>
    /\ UNCHANGED mainVars

\* lines 135-142, the loops' end, and line 143
ChordsDone ==
    /\ pc = "chord"
    /\ ToDraw(c.Flow, i, j) = NoCell
    /\ pc' = Enter(NextBlock("chords"), n).pc
    /\ i' = 0
    /\ j' = 0
    /\ UNCHANGED <<c, n, angleStep, baseLabelStyle, outerLabelStyle, maxFlow, ops, divisors, palette>>
    /\ UNCHANGED mainVars

Next ==
    \/ Search
    \/ IndexBuckets
    \/ AllocFlow
    \/ FillBuckets
    \/ AddDiagram
    \/ NewDiagram
    \/ PlotBegin
    \/ PlotNode
    \/ PlotNodePanic
    \/ MaxFlow
    \/ PlotChord
    \/ ChordsDone

Spec == Init /\ [][Next]_vars

(***************************************************************************)
(* The label rotation of one node as a function of the node count and the  *)
(* node (lines 55, 74 and 86-117), for every node of every node count up   *)
(* to MaxRotN.                                                             *)
(***************************************************************************)
InitRot == Start("rot-layout") /\ n \in 1..MaxRotN /\ i \in 0..(n - 1)

\* line 55
RotLayout ==
    /\ pc = "rot-layout"
    /\ angleStep' = AngleStep(n)
    /\ pc' = "rot-node"
    /\ UNCHANGED <<c, n, i, j, baseLabelStyle, outerLabelStyle, maxFlow, ops,
                   divisors, palette>>
    /\ UNCHANGED mainVars

\* lines 74, 86-95 and 102-117
RotNode ==
    /\ pc = "rot-node"
    /\ \E angle \in {NodeAngle(i, n, angleStep)} :
         /\ baseLabelStyle' = CenterStyle(baseLabelStyle, BaseRotation(angle))
         /\ outerLabelStyle' = CenterStyle(outerLabelStyle, LabelRotation(angle))
    /\ pc' = "rot-done"
    /\ UNCHANGED <<c, n, angleStep, i, j, maxFlow, ops, divisors, palette>>
    /\ UNCHANGED mainVars

NextRot == RotLayout \/ RotNode

SpecRot == InitRot /\ [][NextRot]_vars

(***************************************************************************)
(* The colours of the chords of a diagram of n nodes, every entry of which *)
(* is positive (lines 139, 175-177 and 362), for n up to MaxColorN.        *)
(***************************************************************************)
InitColor == Start("color") /\ n \in 1..MaxColorN /\ i = 0

Colorize ==
    /\ pc = "color"
    /\ palette' = {[pair |-> p, color |-> ChordColor(ColorOf(p[1], p[2]))] :
                     p \in SquareCells(n)}
    /\ pc' = "colored"
    /\ UNCHANGED <<c, n, angleStep, i, j, baseLabelStyle, outerLabelStyle, maxFlow,
                   ops, divisors>>
    /\ UNCHANGED mainVars

NextColor == Colorize

SpecColor == InitColor /\ [][NextColor]_vars

(***************************************************************************)
(* What the properties are stated in.                                      *)
(***************************************************************************)
IsArc(o) == o.op = "Stroke" /\ o.path[2].seg = "Arc"

IsChord(o) == o.op = "Stroke" /\ o.path[2].seg = "CubeTo"

IsText(o) == o.op = "FillText"

IsForeground(o) == IsText(o) /\ o.style.Color = Black

IsBackplate(o) == IsText(o) /\ o.style.Color = Backplate

Count(P(_)) == Cardinality({k \in 1..Len(ops) : P(ops[k])})

\* Plot has been entered
Plotting == pc \in {"arc", "maxflow", "chord", "returned", "panicked"}

Rows(F) == 1..Len(F)

IsSquare(F) == \A r \in Rows(F) : Len(F[r]) = Len(F)

Entries(F) == UNION {{F[r][k] : k \in 1..Len(F[r])} : r \in Rows(F)}

AllZero(F) == \A x \in Entries(F) : FIsZero(x)

\* the largest entry of the matrix; 0 for the matrix without entries
LargestEntry(F) ==
    CHOOSE m \in Entries(F) \cup {FZero} : \A x \in Entries(F) : ~FLess(m, x)

\* x is a whole number below 2^50
Whole(x) ==
    /\ FLess(x, [m |-> <<1>>, e |-> 50])
    /\ x.e >= 0 \/ BitLen(BDivPow2(x.m, -x.e).r) = 0

WholeEntries(F) == \A x \in Entries(F) : Whole(x)

Labelled(d) == ~d.Labels.nil /\ Len(d.Labels.s) = Len(d.Flow)

\* the ordered pair of nodes a chord joins
ChordPair(o) == <<o.path[1].to.a.num, o.path[2].to.a.num>>

Chords == SelectSeq(ops, IsChord)

\* C1: no arc stroke and no label fill follows a chord stroke on the canvas:
\* an operation next after a chord is a chord (so every operation after a
\* chord is one).
C1_ArcsAndLabelsBeforeChords ==
    \A k \in 1..(Len(ops) - 1) : IsChord(ops[k]) => IsChord(ops[k + 1])

C1_Witness ==
    /\ pc = "returned"
    /\ n = 3
    /\ Count(IsArc) = 3
    /\ Count(IsText) = 12
    /\ Count(IsChord) = 2
    /\ IsChord(ops[Len(ops)])

\* the entry of the cell p = <<i, j>>
FlowAt(p) == c.Flow[p[1] + 1][p[2] + 1]

\* the chords ch are exactly one for each ordered pair with a positive entry,
\* none for the others
OneChordPerPositiveFlow(ch) ==
    /\ \A k \in 1..Len(ch) : ChordPair(ch[k]) \in SquareCells(n)
    /\ \A p \in SquareCells(n) :
         Cardinality({k \in 1..Len(ch) : ChordPair(ch[k]) = p})
            = IF FLess(FZero, FlowAt(p)) THEN 1 ELSE 0

\* the width of every chord is its entry over the largest entry of the matrix,
\* times 3, in float64
WidthIsWeightTimes3(ch, largest) ==
    \A k \in 1..Len(ch) :
        FEq(ch[k].width, FMulInt(3, FDiv(FlowAt(ChordPair(ch[k])), largest)))

WidthIs3AtLargest(ch, largest) ==
    \A k \in 1..Len(ch) :
        FEq(FlowAt(ChordPair(ch[k])), largest) => FEq(ch[k].width, FromInt(3))

WidthsWithin0And3(ch) ==
    \A k \in 1..Len(ch) :
        FLess(FZero, ch[k].width) /\ ~FLess(FromInt(3), ch[k].width)

WidthsStrictlyIncreasing(ch) ==
    \A k1, k2 \in 1..Len(ch) :
        FLess(FlowAt(ChordPair(ch[k1])), FlowAt(ChordPair(ch[k2])))
            => FLess(ch[k1].width, ch[k2].width)

WidthsNeverDecreasing(ch) ==
    \A k1, k2 \in 1..Len(ch) :
        FLess(FlowAt(ChordPair(ch[k1])), FlowAt(ChordPair(ch[k2])))
            => ~FLess(ch[k2].width, ch[k1].width)

\* C2 as claimed: when Plot returns from a square matrix (every entry of the
\* model is non-negative), the canvas holds exactly one chord for each
\* ordered pair with a positive entry and none for the others; the width of
\* the chord of (i, j) is flow[i][j] over the largest entry, times 3, is in
\* (0, 3], is 3 where the entry is the largest, and is strictly larger for a
\* strictly larger entry.
C2_WidthStrictlyIncreasing ==
    (pc = "returned" /\ IsSquare(c.Flow)) =>
        \A ch \in {Chords} :
            /\ OneChordPerPositiveFlow(ch)
            /\ \A largest \in {LargestEntry(c.Flow)} :
                 /\ WidthIsWeightTimes3(ch, largest)
                 /\ WidthIs3AtLargest(ch, largest)
            /\ WidthsWithin0And3(ch)
            /\ WidthsStrictlyIncreasing(ch)

\* C2 amended: when Plot returns from a square matrix, the canvas holds
\* exactly one chord for each ordered pair with a positive entry and none
\* for the others; the width of the chord of (i, j) is flow[i][j] over the
\* largest entry, times 3, in float64, is 3 where the entry is the largest
\* and is never smaller for a larger entry; when the entries are whole
\* numbers below 2^50 the widths are in (0, 3] and strictly larger for a
\* strictly larger entry.
C2_WidthIncreasingForWholeFlows ==
    (pc = "returned" /\ IsSquare(c.Flow)) =>
        \A ch \in {Chords} :
            /\ OneChordPerPositiveFlow(ch)
            /\ \A largest \in {LargestEntry(c.Flow)} :
                 /\ WidthIsWeightTimes3(ch, largest)
                 /\ WidthIs3AtLargest(ch, largest)
            /\ WidthsNeverDecreasing(ch)
            /\ WholeEntries(c.Flow) =>
                 (WidthsWithin0And3(ch) /\ WidthsStrictlyIncreasing(ch))

\* the matrix [[0,100,0],[0,0,50],[0,0,0]] in units of FlowUnit / 50
C2_Witness ==
    /\ pc = "returned"
    /\ c.Flow = << <<FZero, FromInt(2 * FlowUnit), FZero>>,
                   <<FZero, FZero, FromInt(FlowUnit)>>,
                   <<FZero, FZero, FZero>> >>
    /\ WholeEntries(c.Flow)
    /\ Len(Chords) = 2
    /\ ChordPair(Chords[1]) = <<0, 1>> /\ FEq(Chords[1].width, FromInt(3))
    /\ ChordPair(Chords[2]) = <<1, 2>> /\ FEq(Chords[2].width, [m |-> <<3>>, e |-> -1])

\* Plot has ended: it returned, or an index out of range ended it
Ended == pc \in {"returned", "panicked"}

\* C3: flow/maxFlow is only ever evaluated with maxFlow > 0; and Plot of a
\* labelled N x N matrix of zeros ends by returning, having drawn no chord,
\* N arcs and 2N labels (each filled twice, backplate and foreground).
C3_NoDivisionByZero ==
    /\ \A d \in divisors : FLess(FZero, d)
    /\ (Ended /\ Labelled(c) /\ IsSquare(c.Flow) /\ AllZero(c.Flow)) =>
          /\ pc = "returned"
          /\ Count(IsChord) = 0
          /\ Count(IsArc) = n
          /\ Count(IsForeground) = 2 * n
          /\ Count(IsBackplate) = 2 * n

C3_Witness ==
    /\ pc = "returned"
    /\ n = 2
    /\ IsSquare(c.Flow) /\ AllZero(c.Flow) /\ Labelled(c)
    /\ maxFlow = FZero
    /\ divisors = {}
    /\ Count(IsArc) = 2
    /\ Count(IsForeground) = 4

\* the input-shape violations of a diagram
ShapeViolation(d) ==
    \/ Len(d.Flow) = 0
    \/ ~IsSquare(d.Flow)
    \/ Len(d.Labels.s) # Len(d.Flow)

\* C4: Plot of a diagram with an input-shape violation (N = 0, a matrix that
\* is not square, labels that are not as many as the rows) never returns and
\* never draws.
C4_ShapeViolationFailsBeforeDrawing ==
    (Plotting /\ ShapeViolation(c)) => (pc # "returned" /\ ops = <<>>)

\* C5: Plot of a diagram of one node never returns and never strokes an arc.
C5_SingleNodeRejected ==
    (Plotting /\ Len(c.Flow) = 1) => (pc # "returned" /\ Count(IsArc) = 0)

\* C6: no chord on the canvas starts and ends at the same point.
C6_NoDegenerateChord ==
    \A k \in 1..Len(ops) :
        IsChord(ops[k]) => ops[k].path[1].to # ops[k].path[2].to

\* C7: the identity label of node i of n is rotated to the node's angle and
\* the aggregate-volume label to the angle plus Pi/2, both with Pi added
\* exactly when n < 4i < 3n (the angle is strictly between Pi/2 and 3Pi/2).
C7_FlipExactlyInLeftHalf ==
    pc = "rot-done" =>
        LET left == n < 4 * i /\ 4 * i < 3 * n
        IN  /\ baseLabelStyle.Rotation =
                  [node |-> Turn(i, n), quarter |-> FALSE, flip |-> left]
            /\ outerLabelStyle.Rotation =
                  [node |-> Turn(i, n), quarter |-> TRUE, flip |-> left]

RECURSIVE GCD(_, _)
GCD(a, b) == IF b = 0 THEN a ELSE GCD(b, a % b)

\* the node count up to which ColorStep * i is different in a uint8 for
\* different i: 256 / gcd(30, 256) = 128
AliasFree == ChannelSize \div GCD(ColorStep, ChannelSize)

\* different index pairs have different colours: there are as many colours
\* as pairs
DistinctColors ==
    Cardinality({e.color : e \in palette}) = Cardinality({e.pair : e \in palette})

\* C8 as claimed: for every node count, different index pairs have different
\* colours.
C8_ColorsDistinctForEveryN ==
    pc = "colored" => DistinctColors

\* C8 amended: for every node count up to 128, different index pairs have
\* different colours.
C8_ColorsDistinctUpTo128 ==
    (pc = "colored" /\ n <= AliasFree) => DistinctColors

C8_Witness ==
    /\ pc = "colored"
    /\ n = AliasFree
    /\ Cardinality(palette) = AliasFree * AliasFree
    /\ DistinctColors

\* the node loop has ended: the maxFlow loop is next, or an index out of
\* range ended Plot
NodesDone == pc \in {"maxflow", "panicked"}

\* C9: with labels, the operations on the canvas when the node loop has ended
\* are, for node 0, 1, ... in turn: the node's arc, the identity label's
\* backplate and foreground fills, the aggregate-volume label's backplate and
\* foreground fills; a backplate fill and the foreground fill after it have
\* the same anchor, rotation and text; a node loop that ends without a panic
\* has drawn all five for every node.
C9_NodeSequence ==
    (NodesDone /\ ~c.Labels.nil) =>
        LET Pair(k, radius, text) ==
                /\ k + 1 <= Len(ops)
                /\ IsBackplate(ops[k])
                /\ IsForeground(ops[k + 1])
                /\ ops[k].at = pointOnCircle(radius, Turn((k - 1) \div 5, n))
                /\ ops[k + 1].at = ops[k].at
                /\ ops[k + 1].style.Rotation = ops[k].style.Rotation
                /\ ops[k].text = text
                /\ ops[k + 1].text = text
        IN  /\ pc = "maxflow" => Len(ops) = 5 * n
            /\ \A k \in 1..Len(ops) :
                 LET node == (k - 1) \div 5
                     role == (k - 1) % 5
                 IN  /\ role = 0 =>
                          /\ IsArc(ops[k])
                          /\ ops[k].path[2].start = Turn(3 * node - 1, 3 * n)
                     /\ role = 1 => Pair(k, 107, [label |-> c.Labels.s[node + 1]])
                     /\ role = 3 =>
                          Pair(k, 115, FormatMB(RowTotal(c.Flow, node, n)))
                     /\ role \in {2, 4} => IsForeground(ops[k])

C9_Witness ==
    /\ pc = "maxflow"
    /\ n = 3
    /\ ~c.Labels.nil
    /\ Len(ops) = 15
    /\ IsArc(ops[11]) /\ IsBackplate(ops[12]) /\ IsForeground(ops[13])
    /\ IsBackplate(ops[14]) /\ IsForeground(ops[15])

\* main has built the diagram
MainDone == added

RECURSIVE Seen(_, _)
\* the IPs of the first b buckets in the order the response holds them
Seen(bs, b) ==
    IF b = 0 THEN <<>>
    ELSE Seen(bs, b - 1) \o <<bs[b].key>>
           \o [d \in 1..Len(bs[b].dests) |-> bs[b].dests[d].key]

RECURSIVE Records(_, _)
\* the (source, destination, bytes) records of the first b buckets, in order
Records(bs, b) ==
    IF b = 0 THEN <<>>
    ELSE Records(bs, b - 1)
           \o [d \in 1..Len(bs[b].dests) |->
                 [src |-> bs[b].key, dst |-> bs[b].dests[d].key,
                  bytes |-> bs[b].dests[d].bytes]]

FirstPos(seq, x) ==
    CHOOSE k \in 1..Len(seq) : seq[k] = x /\ \A m \in 1..(k - 1) : seq[m] # x

LastOf(S) == CHOOSE k \in S : \A m \in S : m <= k

\* the IPs of the response have the indices 0..size-1 in the order they are
\* first seen, names is the inverse of nodes, the matrix is size x size and
\* the labels are names, and flow[s][d] is the bytes of the last record of
\* (s, d), 0 where there is none
IndexedMatrix ==
    LET seen == Seen(buckets, Len(buckets))
        recs == Records(buckets, Len(buckets))
        ips == {seen[k] : k \in 1..Len(seen)}
        size == Cardinality(ips)
    IN  /\ DOMAIN nodes = ips
        /\ {nodes[ip] : ip \in ips} = 0..(size - 1)
        /\ \A a, b \in ips :
             FirstPos(seen, a) < FirstPos(seen, b) => nodes[a] < nodes[b]
        /\ Len(names) = size
        /\ \A ip \in ips : names[nodes[ip] + 1] = ip
        /\ Len(c.Flow) = size
        /\ IsSquare(c.Flow)
        /\ c.Labels.s = names
        /\ \A a, b \in ips :
             LET hits == {k \in 1..Len(recs) : recs[k].src = a /\ recs[k].dst = b}
             IN  c.Flow[nodes[a] + 1][nodes[b] + 1] =
                    IF hits = {} THEN FZero ELSE recs[LastOf(hits)].bytes

\* C10: the diagram main builds from the buckets of any response has none of
\* the input-shape violations, and its indices, names and matrix are those
\* of IndexedMatrix.
C10_DiagramFromBuckets ==
    MainDone => (~ShapeViolation(c) /\ IndexedMatrix)

\* what main does build from any response
MainBuildsIndexedMatrix ==
    MainDone => IndexedMatrix

\* main has built a diagram of two nodes from two records of the same pair,
\* the destination's IP before the source's in the order of the names
TwoRecordsOfOnePair ==
    /\ MainDone
    /\ Len(names) = 2
    /\ LET recs == Records(buckets, Len(buckets))
       IN  /\ Len(recs) = 2
           /\ recs[1].src = recs[2].src
           /\ recs[1].dst = recs[2].dst
           /\ FlowAt(<<nodes[recs[1].src], nodes[recs[1].dst]>>) = recs[2].bytes
====
